---- MODULE Spec2Model ----
(***************************************************************************)
(* PromptScan client: the scan() orchestration of src/app/page.tsx          *)
(* (endpoint resolution, request classification, sequential fallback) and   *)
(* the React state it writes (url, loading, error, data); the rows and      *)
(* severity groups the page derives from data; and the proxy route of       *)
(* src/app/api/proxy-scan/route.ts.                                         *)
(*                                                                          *)
(* JavaScript runs each event handler and each continuation of an await to  *)
(* the next await without interleaving, so one action is one such run:      *)
(* Scan is the click handler up to its first pending fetch, Complete is the *)
(* continuation that runs when a pending fetch settles.                     *)
(***************************************************************************)
EXTENDS Integers, Sequences, FiniteSets, TLC

\* Clicks on the Scan button in one behaviour of Spec: invocations may overlap.
MaxScans == 2

\* Clicks on the Scan button in one behaviour of SpecSolo.
MaxSoloScans == 1

\* Clicks on the Scan button in one behaviour of SpecSeq.
MaxSeqScans == 2

Max(S) == CHOOSE m \in S : \A n \in S : n <= m

(***************************************************************************)
(* Values.  JavaScript null and undefined are one value, Null; a string in  *)
(* a place that may also hold null is Str(s).                               *)
(***************************************************************************)
Null == [t |-> "null"]

Str(s) == [t |-> "str", s |-> s]

(***************************************************************************)
(* String helpers (TLC strings support Len, SubSeq and \o).                 *)
(***************************************************************************)
CharAt(s, i) == SubSeq(s, i, i)

StartsWith(s, p) == Len(s) >= Len(p) /\ SubSeq(s, 1, Len(p)) = p

\* String.prototype.includes
Includes(s, sub) ==
  \E i \in 1..(Len(s) - Len(sub) + 1) : SubSeq(s, i, i + Len(sub) - 1) = sub

UpperAlpha == "ABCDEFGHIJKLMNOPQRSTUVWXYZ"

LowerAlpha == "abcdefghijklmnopqrstuvwxyz"

LowerChar(c) ==
  IF \E i \in 1..Len(UpperAlpha) : CharAt(UpperAlpha, i) = c
  THEN CharAt(LowerAlpha, CHOOSE i \in 1..Len(UpperAlpha) : CharAt(UpperAlpha, i) = c)
  ELSE c

RECURSIVE ToLower(_)
ToLower(s) ==
  IF s = "" THEN "" ELSE LowerChar(CharAt(s, 1)) \o ToLower(SubSeq(s, 2, Len(s)))

\* s.replace(/\/$/, ''): drops one trailing slash
StripTrailingSlash(s) ==
  IF Len(s) > 0 /\ CharAt(s, Len(s)) = "/" THEN SubSeq(s, 1, Len(s) - 1) ELSE s

\* /^https?:\/\//i.test(s)
HasHttpScheme(s) ==
  LET l == ToLower(SubSeq(s, 1, IF Len(s) < 8 THEN Len(s) ELSE 8))
  IN StartsWith(l, "http://") \/ StartsWith(l, "https://")

Unreserved ==
  "ABCDEFGHIJKLMNOPQRSTUVWXYZabcdefghijklmnopqrstuvwxyz0123456789-_.!~*'()"

EncodeChar(c) ==
  IF Includes(Unreserved, c) THEN c
  ELSE CASE c = ":" -> "%3A"
         [] c = "/" -> "%2F"
         [] c = " " -> "%20"
         [] c = "?" -> "%3F"
         [] c = "&" -> "%26"
         [] c = "=" -> "%3D"
         [] c = "#" -> "%23"
         [] c = "\"" -> "%22"
         [] OTHER -> "%25"

RECURSIVE encodeURIComponent(_)
encodeURIComponent(s) ==
  IF s = "" THEN "" ELSE EncodeChar(CharAt(s, 1)) \o encodeURIComponent(SubSeq(s, 2, Len(s)))

EscapeChar(c) ==
  IF c = "\"" THEN "\\\"" ELSE IF c = "\\" THEN "\\\\" ELSE c

RECURSIVE EscapeJSON(_)
EscapeJSON(s) ==
  IF s = "" THEN "" ELSE EscapeChar(CharAt(s, 1)) \o EscapeJSON(SubSeq(s, 2, Len(s)))

\* JSON.stringify({ url })
StringifyUrlBody(u) == "{\"url\":\"" \o EscapeJSON(u) \o "\"}"

(***************************************************************************)
(* Configuration: the two environment settings ("" is unset).               *)
(***************************************************************************)
Envs ==
  { [NEXT_PUBLIC_API_BASE |-> "", API_BASE |-> ""],
    [NEXT_PUBLIC_API_BASE |-> "HTTP://api.example.com/", API_BASE |-> ""],
    [NEXT_PUBLIC_API_BASE |-> "", API_BASE |-> "srv.example.com/"],
    [NEXT_PUBLIC_API_BASE |-> "ftp://bad", API_BASE |-> ""],
    [NEXT_PUBLIC_API_BASE |-> "api.example.com", API_BASE |-> "https://srv.example.com"] }

\* (process.env.NEXT_PUBLIC_API_BASE || process.env.API_BASE || '').replace(/\/$/, '')
ApiBaseOf(e) ==
  StripTrailingSlash(
    IF e.NEXT_PUBLIC_API_BASE # "" THEN e.NEXT_PUBLIC_API_BASE
    ELSE IF e.API_BASE # "" THEN e.API_BASE
    ELSE "")

ConfigInvalid_Unchecked(apiBase) == FALSE

\* apiBase && !/^https?:\/\//i.test(apiBase)
ConfigInvalid(apiBase) == apiBase # "" /\ ~HasHttpScheme(apiBase)

(***************************************************************************)
(* Endpoint Resolver: the attempts array of scan().                         *)
(***************************************************************************)
PostInit(u) ==
  [t |-> "init", method |-> "POST", contentType |-> "application/json",
   body |-> StringifyUrlBody(u)]

PostTo(endpoint, u) == [url |-> endpoint, init |-> PostInit(u)]

GetTo(endpoint, u) ==
  [url |-> endpoint \o "?url=" \o encodeURIComponent(u), init |-> Null]

ProxyAttempts(apiBase, u) ==
  IF apiBase # ""
  THEN << PostTo("/api/proxy-scan", u), GetTo("/api/proxy-scan", u) >>
  ELSE << >>

SameOriginAttempts(u) ==
  << PostTo("/api/scan", u), GetTo("/api/scan", u),
     PostTo("/api/scan/", u), GetTo("/api/scan/", u) >>

DirectAttempts(apiBase, u) ==
  IF apiBase # ""
  THEN LET base == StripTrailingSlash(apiBase)
       IN << PostTo(base \o "/api/scan", u), GetTo(base \o "/api/scan", u),
             PostTo(base \o "/api/scan/", u), GetTo(base \o "/api/scan/", u) >>
  ELSE << >>

Attempts_DirectFirst(apiBase, u) ==
  ProxyAttempts(apiBase, u) \o DirectAttempts(apiBase, u) \o SameOriginAttempts(u)

Attempts(apiBase, u) ==
  ProxyAttempts(apiBase, u) \o SameOriginAttempts(u) \o DirectAttempts(apiBase, u)

(***************************************************************************)
(* What a fetch can settle with: a response (status, content-type header,   *)
(* body text) or a rejection (a thrown TypeError).                          *)
(***************************************************************************)
Resp(status, ctype, body) ==
  [kind |-> "resp", status |-> status, ctype |-> ctype, body |-> body, message |-> ""]

Reject(message) ==
  [kind |-> "throw", status |-> 0, ctype |-> Null, body |-> "", message |-> message]

JsonType == Str("application/json")

HtmlType == Str("text/html")

BodyPayload ==
  "{\"results\":[{\"file_path\":\"app.js\",\"findings\":[{\"severity\":\"high\",\"message\":\"eval with user input\",\"line\":42}]}]}"

BodyErrInternal == "{\"error\":\"internal\"}"

BodyErrEmpty == "{\"error\":\"\"}"

BodyEmptyObj == "{}"

BodyNull == "null"

BodyHtml == "<html></html>"

Num(n) == [t |-> "num", n |-> n]

Arr(items) == [t |-> "arr", items |-> items]

Obj(error, results) == [t |-> "obj", error |-> error, results |-> results]

Parsed(v) == [ok |-> TRUE, v |-> v]

\* JSON.parse on the body texts the model uses; any other text is a SyntaxError
JSONParse(text) ==
  CASE text = BodyPayload ->
         Parsed(Obj(Null,
           Arr(<< [file_path |-> "app.js",
                   findings |-> Arr(<< [severity |-> Str("high"),
                                        message |-> Str("eval with user input"),
                                        line |-> Num(42), line_no |-> Null,
                                        confidence |-> Null] >>)] >>)))
    [] text = BodyErrInternal -> Parsed(Obj(Str("internal"), Null))
    [] text = BodyErrEmpty -> Parsed(Obj(Str(""), Null))
    [] text = BodyEmptyObj -> Parsed(Obj(Null, Null))
    [] text = BodyNull -> Parsed(Null)
    [] OTHER -> [ok |-> FALSE, v |-> Null]

\* JavaScript truthiness of a value
Truthy(v) ==
  CASE v.t = "null" -> FALSE
    [] v.t = "str" -> v.s # ""
    [] v.t = "num" -> v.n # 0
    [] OTHER -> TRUE

\* res.ok
StatusOk(status) == status >= 200 /\ status <= 299

Err(name, message) == [t |-> "err", name |-> name, message |-> message]

Threw(e) == [ok |-> FALSE, json |-> Null, err |-> e]

Returned(json) == [ok |-> TRUE, json |-> json, err |-> Null]

\* json?.error
ErrorField(json) == IF json.t = "obj" THEN json.error ELSE Null

NonJsonMsg(status) == "API returned non-JSON (status " \o ToString(status) \o ")."

InvalidJsonMsg == "Invalid JSON from API."

RequestFailedMsg(status) == "Request failed (" \o ToString(status) \o ")"

StatusErrorMsg_Generic(json, status) == RequestFailedMsg(status)

\* json?.error || `Request failed (${res.status})`
StatusErrorMsg(json, status) ==
  IF Truthy(ErrorField(json)) THEN ErrorField(json).s ELSE RequestFailedMsg(status)

tryRequest_StatusFirst(r) ==
  IF r.kind = "throw" THEN Threw(Err("TypeError", r.message))
  ELSE
    LET contentType == IF Truthy(r.ctype) THEN r.ctype.s ELSE ""
        parsed == JSONParse(r.body)
    IN IF ~StatusOk(r.status)
       THEN Threw(Err("Error", StatusErrorMsg(parsed.v, r.status)))
       ELSE IF ~Includes(contentType, "application/json")
       THEN Threw(Err("Error", NonJsonMsg(r.status)))
       ELSE IF ~parsed.ok
       THEN Threw(Err("Error", InvalidJsonMsg))
       ELSE Returned(parsed.v)

(***************************************************************************)
(* Request Executor: tryRequest, applied to what its fetch settled with.    *)
(***************************************************************************)
tryRequest(r) ==
  IF r.kind = "throw" THEN Threw(Err("TypeError", r.message))
  ELSE
    LET contentType == IF Truthy(r.ctype) THEN r.ctype.s ELSE ""
        parsed == JSONParse(r.body)
    IN IF ~Includes(contentType, "application/json")
       THEN Threw(Err("Error", NonJsonMsg(r.status)))
       ELSE IF ~parsed.ok
       THEN Threw(Err("Error", InvalidJsonMsg))
       ELSE IF ~StatusOk(r.status)
       THEN Threw(Err("Error", StatusErrorMsg(parsed.v, r.status)))
       ELSE Returned(parsed.v)

(***************************************************************************)
(* Fallback Controller: the pieces of scan()'s loop and its catch/finally.  *)
(***************************************************************************)
ConfigErrorMsg ==
  "NEXT_PUBLIC_API_BASE must include protocol, e.g., https://your-app.vercel.app"

Hint ==
  "Check your deployed API and set NEXT_PUBLIC_API_BASE (e.g., https://your-app.vercel.app)."

\* String(e) of an Error object
ErrToString(e) == IF e.message = "" THEN e.name ELSE e.name \o ": " \o e.message

UserMessage_NoHint(e) == IF e.message # "" THEN e.message ELSE ErrToString(e)

\* `${String(e.message || e)} ${hint}`
UserMessage(e) ==
  (IF e.message # "" THEN e.message ELSE ErrToString(e)) \o " " \o Hint

CatchError_KeepFirst(lastError, e) == IF lastError = Null THEN e ELSE lastError

\* catch (e) { lastError = e; }
CatchError(lastError, e) == e

\* throw lastError || new Error('All scan endpoints failed')
Thrown(lastError) ==
  IF Truthy(lastError) THEN lastError ELSE Err("Error", "All scan endpoints failed")

NextFetches_Stop(attempts, k) == IF k = 0 THEN << 1 >> ELSE << >>

NextFetches_AllRemaining(attempts, k) == [j \in 1..(Len(attempts) - k) |-> k + j]

\* the candidates whose fetch the loop starts once candidate k has failed
NextFetches(attempts, k) == IF k < Len(attempts) THEN << k + 1 >> ELSE << >>

FetchesAfterSuccess_NoReturn(attempts, k) == NextFetches(attempts, k)

\* the candidates whose fetch the loop starts once candidate k has succeeded
FetchesAfterSuccess(attempts, k) == << >>

Range(seq) == { seq[j] : j \in 1..Len(seq) }

(***************************************************************************)
(* State.                                                                   *)
(***************************************************************************)
Urls == { "", "https://github.com/o/r" }

\* what the scanning service, the proxy or the transport answer in Spec
ScanResponses ==
  { Resp(200, JsonType, BodyPayload),
    Resp(200, JsonType, BodyNull),
    Resp(200, HtmlType, BodyHtml),
    Resp(500, JsonType, BodyErrInternal),
    Reject("Failed to fetch") }

\* what they answer in SpecSolo: every kind of failure of tryRequest
SoloResponses ==
  ScanResponses \cup
  { Resp(200, Str("application/json; charset=utf-8"), BodyPayload),
    Resp(200, JsonType, BodyHtml),
    Resp(200, Null, BodyPayload),
    Resp(404, HtmlType, BodyHtml),
    Resp(500, JsonType, BodyErrEmpty),
    Resp(500, JsonType, BodyEmptyObj) }

VARIABLES
  env,      \* process.env, fixed for a behaviour
  url,      \* useState('') : the input's value
  loading,  \* useState(false)
  error,    \* useState(null) : Null or Str(message)
  data,     \* useState(null) : Null or the parsed payload
  clicks,   \* clicks on the Scan button so far; click c runs invocation c
  inv,      \* the scan() invocations: locals of each and the fetches it made
  probe     \* one call of a pure function on its own: its input and its result

vars == << env, url, loading, error, data, clicks, inv, probe >>

Invocations == 1..Max({ MaxScans, MaxSoloScans, MaxSeqScans })

\* what an invocation stored when it ended: the result it passed to setData
\* or the message it passed to setError
Stored(result, message) == [data |-> result, error |-> message]

\* an invocation that has not been called yet
Idle ==
  [pc |-> "idle", ref |-> "", attempts |-> << >>, idx |-> 0, lastError |-> Null,
   inflight |-> {}, fetched |-> << >>, settled |-> Null, outcome |-> "none",
   stored |-> Null]

Init ==
  /\ env \in Envs
  /\ url = ""
  /\ loading = FALSE
  /\ error = Null
  /\ data = Null
  /\ clicks = 0
  /\ inv = [i \in Invocations |-> Idle]
  /\ probe = Null

\* onChange={e => setUrl(e.target.value)}
SetUrl(u, max) ==
  /\ clicks < max
  /\ u # url
  /\ url' = u
  /\ UNCHANGED << env, loading, error, data, clicks, inv, probe >>

ScanEmpty_AfterReset(max) ==
  /\ clicks < max
  /\ url = ""
  /\ clicks' = clicks + 1
  /\ loading' = TRUE
  /\ error' = Null
  /\ data' = Null
  /\ inv' = [inv EXCEPT ![clicks + 1] = [Idle EXCEPT !.pc = "done", !.outcome = "empty"]]
  /\ UNCHANGED << env, url, probe >>

\* scan() called with an empty url: `if (!url) return;`
ScanEmpty(max) ==
  /\ clicks < max
  /\ url = ""
  /\ clicks' = clicks + 1
  /\ inv' = [inv EXCEPT ![clicks + 1] = [Idle EXCEPT !.pc = "done", !.outcome = "empty"]]
  /\ UNCHANGED << env, url, loading, error, data, probe >>

\* scan() whose configuration check throws: reset, catch, finally, in one run
ScanConfigError(max) ==
  /\ clicks < max
  /\ url # ""
  /\ ConfigInvalid(ApiBaseOf(env))
  /\ clicks' = clicks + 1
  /\ error' = Str(UserMessage(Err("Error", ConfigErrorMsg)))
  /\ data' = Null
  /\ loading' = FALSE
  /\ inv' = [inv EXCEPT ![clicks + 1] =
               [Idle EXCEPT !.pc = "done", !.ref = url, !.outcome = "config",
                            !.stored = Stored(Null, error')]]
  /\ UNCHANGED << env, url, probe >>

\* scan() up to the await of its first fetch
ScanDispatch(max) ==
  /\ clicks < max
  /\ url # ""
  /\ ~ConfigInvalid(ApiBaseOf(env))
  /\ clicks' = clicks + 1
  /\ loading' = TRUE
  /\ error' = Null
  /\ data' = Null
  /\ LET attempts == Attempts(ApiBaseOf(env), url)
         first == NextFetches(attempts, 0)
     IN inv' = [inv EXCEPT ![clicks + 1] =
                  [pc |-> "await", ref |-> url, attempts |-> attempts, idx |-> 1,
                   lastError |-> Null, inflight |-> Range(first), fetched |-> first,
                   settled |-> Null, outcome |-> "none", stored |-> Null]]
  /\ UNCHANGED << env, url, probe >>

\* <Button onClick={scan}>
Scan(max) == ScanEmpty(max) \/ ScanConfigError(max) \/ ScanDispatch(max)

\* the awaited fetch of invocation i settles with r and tryRequest returns
CompleteSuccess(i, r) ==
  LET s == inv[i]
      out == tryRequest(r)
      more == FetchesAfterSuccess(s.attempts, s.idx)
  IN /\ s.pc = "await"
     /\ s.idx \in s.inflight
     /\ out.ok
     /\ data' = out.json
     /\ loading' = FALSE
     /\ inv' = [inv EXCEPT ![i] =
                  [s EXCEPT !.pc = "done", !.outcome = "success", !.settled = r,
                            !.stored = Stored(data', Null),
                            !.inflight = (s.inflight \ {s.idx}) \cup Range(more),
                            !.fetched = s.fetched \o more]]
     /\ UNCHANGED << env, url, error, clicks, probe >>

\* the awaited fetch settles, tryRequest throws, and the loop goes on
CompleteRetry(i, r) ==
  LET s == inv[i]
      out == tryRequest(r)
      more == NextFetches(s.attempts, s.idx)
  IN /\ s.pc = "await"
     /\ s.idx \in s.inflight
     /\ ~out.ok
     /\ s.idx < Len(s.attempts)
     /\ inv' = [inv EXCEPT ![i] =
                  [s EXCEPT !.idx = s.idx + 1, !.settled = r,
                            !.lastError = CatchError(s.lastError, out.err),
                            !.inflight = (s.inflight \ {s.idx}) \cup Range(more),
                            !.fetched = s.fetched \o more]]
     /\ UNCHANGED << env, url, loading, error, data, clicks, probe >>

\* the awaited fetch of the last candidate settles and tryRequest throws
CompleteFail(i, r) ==
  LET s == inv[i]
      out == tryRequest(r)
      lastError == CatchError(s.lastError, out.err)
  IN /\ s.pc = "await"
     /\ s.idx \in s.inflight
     /\ ~out.ok
     /\ s.idx >= Len(s.attempts)
     /\ error' = Str(UserMessage(Thrown(lastError)))
     /\ loading' = FALSE
     /\ inv' = [inv EXCEPT ![i] =
                  [s EXCEPT !.pc = "done", !.outcome = "failed", !.settled = r,
                            !.stored = Stored(Null, error'),
                            !.lastError = lastError,
                            !.inflight = s.inflight \ {s.idx}]]
     /\ UNCHANGED << env, url, data, clicks, probe >>

\* the settling of the fetch that invocation i awaits
Complete(i, r) == CompleteSuccess(i, r) \/ CompleteRetry(i, r) \/ CompleteFail(i, r)

\* the page, its Scan button clicked at most MaxScans times
Next ==
  \/ \E u \in Urls : SetUrl(u, MaxScans)
  \/ Scan(MaxScans)
  \/ \E i \in Invocations, r \in ScanResponses : Complete(i, r)

Spec == Init /\ [][Next]_vars

\* the page, its Scan button clicked at most MaxSoloScans times
NextSolo ==
  \/ \E u \in Urls : SetUrl(u, MaxSoloScans)
  \/ Scan(MaxSoloScans)
  \/ \E i \in Invocations, r \in SoloResponses : Complete(i, r)

SpecSolo == Init /\ [][NextSolo]_vars

\* SpecSolo where every fetch that was started settles in the end
SpecSoloLive ==
  SpecSolo /\ WF_vars(\E i \in Invocations, r \in SoloResponses : Complete(i, r))

\* no invocation awaits a fetch
NoneRunning == \A i \in Invocations : inv[i].pc # "await"

\* the page, its Scan button clicked at most MaxSeqScans times, each time
\* after the scan before has ended
NextSeq ==
  \/ \E u \in Urls : SetUrl(u, MaxSeqScans)
  \/ NoneRunning /\ Scan(MaxSeqScans)
  \/ \E i \in Invocations, r \in ScanResponses : Complete(i, r)

SpecSeq == Init /\ [][NextSeq]_vars

(***************************************************************************)
(* The Request Executor on its own: tryRequest applied once to each thing   *)
(* a fetch can settle with.                                                 *)
(***************************************************************************)
Statuses == { 200, 201, 299, 301, 404, 500 }

ContentTypes ==
  { Null, Str(""), JsonType, Str("application/json; charset=utf-8"), HtmlType,
    Str("Application/JSON") }

Bodies ==
  { BodyPayload, BodyErrInternal, BodyErrEmpty, BodyEmptyObj, BodyNull, BodyHtml, "" }

FetchOutcomes ==
  { Resp(st, ct, b) : st \in Statuses, ct \in ContentTypes, b \in Bodies }
    \cup { Reject("Failed to fetch"), Reject("") }

InitExec ==
  /\ env \in Envs
  /\ url = ""
  /\ loading = FALSE
  /\ error = Null
  /\ data = Null
  /\ clicks = 0
  /\ inv = [i \in Invocations |-> Idle]
  /\ \E r \in FetchOutcomes : probe = [t |-> "tryRequest", in |-> r, done |-> FALSE, out |-> Null]

ExecTryRequest ==
  /\ probe.t = "tryRequest"
  /\ ~probe.done
  /\ probe' = [probe EXCEPT !.done = TRUE, !.out = tryRequest(probe.in)]
  /\ UNCHANGED << env, url, loading, error, data, clicks, inv >>

NextExec == ExecTryRequest

SpecExec == InitExec /\ [][NextExec]_vars

(***************************************************************************)
(* The Normalizer (rows), the Severity Grouper (bySeverity) and the         *)
(* findings list of the page.  A finding is a record of its five fields;    *)
(* an absent field is Null.  Severities and messages are strings or absent, *)
(* as the ScanPayload type declares them.                                   *)
(***************************************************************************)
UpperChar_Keep(c) == c

UpperChar(c) ==
  IF \E i \in 1..Len(LowerAlpha) : CharAt(LowerAlpha, i) = c
  THEN CharAt(UpperAlpha, CHOOSE i \in 1..Len(LowerAlpha) : CharAt(LowerAlpha, i) = c)
  ELSE c

\* String.prototype.toUpperCase
RECURSIVE ToUpper(_)
ToUpper(s) ==
  IF s = "" THEN "" ELSE UpperChar(CharAt(s, 1)) \o ToUpper(SubSeq(s, 2, Len(s)))

\* a || b
OrElse(a, b) == IF Truthy(a) THEN a ELSE b

\* a ?? b
Coalesce_Falsy(a, b) == IF Truthy(a) THEN a ELSE b

Coalesce(a, b) == IF a.t = "null" THEN b ELSE a

\* String(v) of a string or a number
JsString(v) ==
  CASE v.t = "str" -> v.s
    [] v.t = "num" -> ToString(v.n)
    [] OTHER -> "null"

\* x || [] where x is an array or absent
ListOrEmpty(x) == IF Truthy(x) THEN x.items ELSE << >>

\* (f.severity || 'unknown').toUpperCase()
SeverityOf_NoDefault(f) ==
  IF f.severity.t = "null" THEN "UNKNOWN" ELSE ToUpper(f.severity.s)

SeverityOf(f) == ToUpper(OrElse(f.severity, Str("unknown")).s)

\* String(f.line ?? f.line_no ?? '')
LineOf(f) == JsString(Coalesce(Coalesce(f.line, f.line_no), Str("")))

Row_AnyConfidence(item, f) ==
  [file |-> item.file_path,
   severity |-> SeverityOf(f),
   message |-> OrElse(f.message, Str("")).s,
   line |-> LineOf(f),
   confidence |-> f.confidence]

\* the object pushed for finding f of item
Row(item, f) ==
  [file |-> item.file_path,
   severity |-> SeverityOf(f),
   message |-> OrElse(f.message, Str("")).s,
   line |-> LineOf(f),
   confidence |-> IF f.confidence.t = "num" THEN f.confidence ELSE Null]

\* r.push(row)
Push_Front(r, x) == << x >> \o r

Push(r, x) == Append(r, x)

\* the inner loop: for (const f of item.findings || [])
RECURSIVE PushFindings(_, _, _)
PushFindings(r, item, fs) ==
  IF fs = << >> THEN r
  ELSE PushFindings(Push(r, Row(item, Head(fs))), item, Tail(fs))

\* item.findings || []
FindingsOf_Placeholder(item) ==
  IF Truthy(item.findings) /\ item.findings.items # << >>
  THEN item.findings.items
  ELSE << [severity |-> Null, message |-> Null, line |-> Null, line_no |-> Null,
           confidence |-> Null] >>

FindingsOf(item) == ListOrEmpty(item.findings)

\* the outer loop: for (const item of data?.results || [])
RECURSIVE PushItems(_, _)
PushItems(r, items) ==
  IF items = << >> THEN r
  ELSE PushItems(PushFindings(r, Head(items), FindingsOf(Head(items))), Tail(items))

\* data?.results
ResultsOf(d) == IF d.t = "null" THEN Null ELSE d.results

rows(d) == PushItems(<< >>, ListOrEmpty(ResultsOf(d)))

\* g is an object: its keys in insertion order, each with its array
HasKey(g, key) == \E k \in 1..Len(g) : g[k].key = key

KeyIndex(g, key) == CHOOSE k \in 1..Len(g) : g[k].key = key

\* (g[x.severity] ||= []).push(x)
GroupPush_Replace(g, x) ==
  IF HasKey(g, x.severity)
  THEN [g EXCEPT ![KeyIndex(g, x.severity)].items = << x >>]
  ELSE Append(g, [key |-> x.severity, items |-> << x >>])

GroupPush(g, x) ==
  IF HasKey(g, x.severity)
  THEN [g EXCEPT ![KeyIndex(g, x.severity)].items = Append(@, x)]
  ELSE Append(g, [key |-> x.severity, items |-> << x >>])

RECURSIVE GroupRows(_, _)
GroupRows(g, rs) ==
  IF rs = << >> THEN g ELSE GroupRows(GroupPush(g, Head(rs)), Tail(rs))

bySeverity(rs) == GroupRows(<< >>, rs)

\* bySeverity[sev] || []
ItemsOf(g, sev) == IF HasKey(g, sev) THEN g[KeyIndex(g, sev)].items ELSE << >>

\* ['CRITICAL','HIGH','MEDIUM','LOW','UNKNOWN']
SeverityOrder == << "CRITICAL", "HIGH", "MEDIUM", "LOW", "UNKNOWN" >>

\* the keys the list is mapped over
DisplayKeys_Insertion(g) == [k \in 1..Len(g) |-> g[k].key]

DisplayKeys(g) == SeverityOrder

\* {!!rows.length && [...].map(sev => items.length ? <group> : null)}:
\* the groups rendered, top to bottom
Shown(rs, g) ==
  IF Len(rs) = 0 THEN << >>
  ELSE SelectSeq([k \in 1..Len(DisplayKeys(g)) |->
                    [sev |-> DisplayKeys(g)[k], items |-> ItemsOf(g, DisplayKeys(g)[k])]],
                 LAMBDA e : Len(e.items) > 0)

(***************************************************************************)
(* Payloads the page may be given, and one render of each.                  *)
(***************************************************************************)
MaxItems == 2

MaxFindings == 2

Finding(severity, message, line, lineNo, confidence) ==
  [severity |-> severity, message |-> message, line |-> line,
   line_no |-> lineNo, confidence |-> confidence]

\* every combination of present, absent and falsy fields, for a payload of
\* one finding
Findings ==
  { Finding(s, m, l, n, c) :
      s \in { Null, Str(""), Str("high"), Str("Critical"), Str("info") },
      m \in { Null, Str("eval with user input") },
      l \in { Null, Num(0), Num(42), Str("7") },
      n \in { Null, Num(0), Num(9) },
      c \in { Null, Num(0), Num(1), Num(2), Num(-1), Str("0.9") } }

\* the findings of the longer payloads: two of one severity, one of a
\* severity met later in the fixed order, one without severity, one whose
\* label is outside the five
ListFindings ==
  { Finding(Str("low"), Str("first"), Num(1), Null, Null),
    Finding(Str("low"), Str("second"), Null, Num(2), Null),
    Finding(Str("Critical"), Str("third"), Num(3), Null, Num(1)),
    Finding(Null, Null, Null, Null, Null),
    Finding(Str("info"), Str("fifth"), Num(5), Null, Null) }

SeqsUpTo(S, n) == UNION { [1..k -> S] : k \in 0..n }

\* the findings field of an item: absent, or a list of up to MaxFindings
FindingLists ==
  { Null } \cup { Arr(fs) : fs \in SeqsUpTo(ListFindings, MaxFindings) }

Files == << "app.js", "lib/util.py", "README.md", "src/main.ts" >>

\* item j of a payload is a file of its own
ItemLists ==
  { [j \in 1..Len(fl) |-> [file_path |-> Files[j], findings |-> fl[j]]] :
      fl \in SeqsUpTo(FindingLists, MaxItems) }

Payloads ==
  { Null, Obj(Null, Null) }
    \cup { Obj(Null, Arr(items)) : items \in ItemLists }
    \cup { Obj(Null, Arr(<< [file_path |-> Files[1], findings |-> Arr(<< f >>)] >>)) :
             f \in Findings }

InitNorm ==
  /\ env \in { e \in Envs : ApiBaseOf(e) = "" }
  /\ url = ""
  /\ loading = FALSE
  /\ error = Null
  /\ data \in Payloads
  /\ clicks = 0
  /\ inv = [i \in Invocations |-> Idle]
  /\ probe = [t |-> "render", done |-> FALSE, rows |-> << >>, bySeverity |-> << >>,
              shown |-> << >>]

\* one render of the page: the two memos, then the findings list
Render ==
  /\ probe.t = "render"
  /\ ~probe.done
  /\ probe' = [t |-> "render", done |-> TRUE,
               rows |-> rows(data),
               bySeverity |-> bySeverity(rows(data)),
               shown |-> Shown(rows(data), bySeverity(rows(data)))]
  /\ UNCHANGED << env, url, loading, error, data, clicks, inv >>

NextNorm == Render

SpecNorm == InitNorm /\ [][NextNorm]_vars

(***************************************************************************)
(* Proxy Forwarder: src/app/api/proxy-scan/route.ts.  One inbound request   *)
(* to /api/proxy-scan is handled: POST or GET runs up to the await of the   *)
(* upstream fetch (or answers at once), Forward is the continuation that    *)
(* runs when the upstream fetch settles.                                    *)
(***************************************************************************)
ProxyEnvValues == { "", "/", "https://srv.example.com", "https://api.example.com/" }

ProxyEnvs ==
  { [NEXT_PUBLIC_API_BASE |-> a, API_BASE |-> b] : a, b \in ProxyEnvValues }

getBase_NextPublicOnly(e) ==
  IF StripTrailingSlash(e.NEXT_PUBLIC_API_BASE) # ""
  THEN Str(StripTrailingSlash(e.NEXT_PUBLIC_API_BASE))
  ELSE Str("http://localhost:8000")

\* process.env.API_BASE || process.env.NEXT_PUBLIC_API_BASE || '', one
\* trailing slash dropped; null when nothing is left
getBase(e) ==
  LET envValue == IF e.API_BASE # "" THEN e.API_BASE
                  ELSE IF e.NEXT_PUBLIC_API_BASE # "" THEN e.NEXT_PUBLIC_API_BASE
                  ELSE ""
      trimmed == StripTrailingSlash(envValue)
  IN IF trimmed # "" THEN Str(trimmed) ELSE Null

\* an inbound POST with its body text
PostReq(body) == [method |-> "POST", body |-> body, query |-> Null]

\* an inbound GET; query is searchParams.get('url'), Null when there is none
GetReq(query) == [method |-> "GET", body |-> "", query |-> query]

InboundRequests ==
  { PostReq(b) : b \in { StringifyUrlBody("https://github.com/o/r"), "", "not json" } }
    \cup { GetReq(q) : q \in { Null, Str(""), Str("https://github.com/o/r") } }

\* JSON.stringify({ error })
StringifyError(message) == "{\"error\":\"" \o EscapeJSON(message) \o "\"}"

NotConfiguredMsg ==
  "API_BASE not configured. Set API_BASE or NEXT_PUBLIC_API_BASE to your deployed URL."

\* Response.json({ error: ... }, { status: 503 })
NotConfigured == Resp(503, JsonType, StringifyError(NotConfiguredMsg))

UpstreamNonJsonMsg(status) ==
  "Upstream returned non-JSON (status " \o ToString(status) \o ")"

\* the fetch POST starts
UpstreamPost(base, body) ==
  [url |-> base \o "/api/scan",
   init |-> [t |-> "init", method |-> "POST", contentType |-> "application/json",
             body |-> body]]

\* searchParams.get('url') || ''
QueryUrl(query) == IF Truthy(query) THEN query.s ELSE ""

\* the fetch GET starts
UpstreamGet(base, query) ==
  [url |-> base \o "/api/scan?url=" \o encodeURIComponent(QueryUrl(query)), init |-> Null]

forward_StatusFirst(r) ==
  IF r.kind = "throw" THEN r
  ELSE IF ~StatusOk(r.status)
  THEN Resp(502, JsonType, StringifyError(UpstreamNonJsonMsg(r.status)))
  ELSE Resp(r.status, JsonType, r.body)

\* forward(), applied to what its fetch settled with; a rejection of the
\* fetch is rethrown
forward(r) ==
  IF r.kind = "throw" THEN r
  ELSE
    LET contentType == IF Truthy(r.ctype) THEN r.ctype.s ELSE ""
    IN IF ~Includes(contentType, "application/json")
       THEN Resp(502, JsonType, StringifyError(UpstreamNonJsonMsg(r.status)))
       ELSE Resp(r.status, JsonType, r.body)

\* what the upstream /api/scan or the transport answers the proxy
UpstreamOutcomes ==
  { Resp(st, ct, b) :
      st \in { 200, 404, 500 },
      ct \in { Null, JsonType, Str("application/json; charset=utf-8"), HtmlType },
      b \in { BodyPayload, BodyErrInternal, BodyHtml } }
    \cup { Reject("Failed to fetch") }

InitProxy ==
  /\ env \in ProxyEnvs
  /\ url = ""
  /\ loading = FALSE
  /\ error = Null
  /\ data = Null
  /\ clicks = 0
  /\ inv = [i \in Invocations |-> Idle]
  /\ \E q \in InboundRequests :
       probe = [t |-> "proxy", pc |-> "start", req |-> q, sent |-> << >>,
                upstream |-> Null, out |-> Null]

\* export async function POST(req), up to the await of the upstream fetch
POST ==
  /\ probe.t = "proxy"
  /\ probe.pc = "start"
  /\ probe.req.method = "POST"
  /\ LET base == getBase(env)
     IN IF ~Truthy(base)
        THEN probe' = [probe EXCEPT !.pc = "done", !.out = NotConfigured]
        ELSE probe' = [probe EXCEPT !.pc = "await",
                                    !.sent = << UpstreamPost(base.s, probe.req.body) >>]
  /\ UNCHANGED << env, url, loading, error, data, clicks, inv >>

\* export async function GET(req), up to the await of the upstream fetch
GET ==
  /\ probe.t = "proxy"
  /\ probe.pc = "start"
  /\ probe.req.method = "GET"
  /\ LET base == getBase(env)
     IN IF ~Truthy(base)
        THEN probe' = [probe EXCEPT !.pc = "done", !.out = NotConfigured]
        ELSE probe' = [probe EXCEPT !.pc = "await",
                                    !.sent = << UpstreamGet(base.s, probe.req.query) >>]
  /\ UNCHANGED << env, url, loading, error, data, clicks, inv >>

\* the upstream fetch settles with r and forward() answers
Forward(r) ==
  /\ probe.t = "proxy"
  /\ probe.pc = "await"
  /\ probe' = [probe EXCEPT !.pc = "done", !.upstream = r, !.out = forward(r)]
  /\ UNCHANGED << env, url, loading, error, data, clicks, inv >>

NextProxy ==
  \/ POST
  \/ GET
  \/ \E r \in UpstreamOutcomes : Forward(r)

SpecProxy == InitProxy /\ [][NextProxy]_vars

(***************************************************************************)
(* Properties.                                                              *)
(***************************************************************************)
UpTo(k) == [j \in 1..k |-> j]

\* C1: when the fetch of candidate k settles with a success (all of 1..k-1
\* having failed), the invocation has fetched exactly candidates 1..k, in
\* order and once each, leaves none in flight, fetches nothing afterwards,
\* and the stored data is the parsed body of candidate k's response.
C1_FirstSuccess ==
  [][\A i \in Invocations :
       /\ (inv[i].pc = "await" /\ inv'[i].outcome = "success") =>
            LET k == inv[i].idx
                r == inv'[i].settled
            IN /\ inv'[i].pc = "done"
               /\ inv'[i].fetched = UpTo(k)
               /\ inv'[i].inflight = {}
               /\ (k > 1 <=> inv[i].lastError # Null)
               /\ r.kind = "resp" /\ StatusOk(r.status)
               /\ data' = JSONParse(r.body).v
       /\ (inv[i].pc = "done" => inv'[i] = inv[i])]_vars

C1_Witness ==
  \E i \in Invocations :
    /\ inv[i].outcome = "success"
    /\ inv[i].idx = 3
    /\ Len(inv[i].attempts) = 10
    /\ inv[i].settled.body = BodyPayload
    /\ data = JSONParse(BodyPayload).v

\* C2: when the fetch of the last candidate settles with a failure, the
\* invocation has fetched each of its N candidates exactly once, in order,
\* and the stored error is made of candidate N's failure alone.
C2_AllFail ==
  [][\A i \in Invocations :
       (inv[i].pc = "await" /\ inv'[i].outcome = "failed") =>
         LET n == Len(inv[i].attempts)
             r == inv'[i].settled
         IN /\ inv[i].idx = n
            /\ inv'[i].fetched = UpTo(n)
            /\ inv'[i].inflight = {}
            /\ ~tryRequest(r).ok
            /\ inv'[i].lastError = tryRequest(r).err
            /\ error' = Str(tryRequest(r).err.message \o " " \o Hint)]_vars

C2_Witness ==
  \E i \in Invocations :
    /\ inv[i].outcome = "failed"
    /\ Len(inv[i].fetched) = 10
    /\ inv[i].settled = Reject("Failed to fetch")
    /\ error = Str("Failed to fetch " \o Hint)

\* a base URL is configured and it has no http:// or https:// scheme
BadBaseConfigured ==
  LET base == ApiBaseOf(env)
      scheme == ToLower(SubSeq(base, 1, IF Len(base) < 8 THEN Len(base) ELSE 8))
  IN base # "" /\ ~StartsWith(scheme, "http://") /\ ~StartsWith(scheme, "https://")

\* C3: with a configured base URL that lacks the http(s) scheme, a scan of a
\* non-empty reference ends at once with the configuration error and has
\* fetched nothing: no candidate is ever in flight.
C3_ConfigError ==
  [][\A i \in Invocations :
       (inv[i].pc = "idle" /\ inv'[i].pc # "idle" /\ url # "" /\ BadBaseConfigured) =>
         /\ inv'[i].pc = "done"
         /\ inv'[i].fetched = << >>
         /\ inv'[i].inflight = {}
         /\ inv'[i].attempts = << >>
         /\ error' = Str(ConfigErrorMsg \o " " \o Hint)
         /\ data' = Null
         /\ loading' = FALSE]_vars

C3_Witness ==
  /\ env.NEXT_PUBLIC_API_BASE = "ftp://bad"
  /\ \E i \in Invocations :
       inv[i].outcome = "config" /\ inv[i].ref # "" /\ inv[i].fetched = << >>
  /\ error = Str(ConfigErrorMsg \o " " \o Hint)

MethodOf(c) == IF c.init = Null THEN "GET" ELSE c.init.method

Targets(attempts) == [j \in 1..Len(attempts) |-> << MethodOf(attempts[j]), attempts[j].url >>]

SameOriginTargets(q) ==
  << << "POST", "/api/scan" >>, << "GET", "/api/scan?url=" \o q >>,
     << "POST", "/api/scan/" >>, << "GET", "/api/scan/?url=" \o q >> >>

ConfiguredTargets(base, q) ==
  << << "POST", "/api/proxy-scan" >>, << "GET", "/api/proxy-scan?url=" \o q >> >>
  \o SameOriginTargets(q)
  \o << << "POST", base \o "/api/scan" >>, << "GET", base \o "/api/scan?url=" \o q >>,
        << "POST", base \o "/api/scan/" >>, << "GET", base \o "/api/scan/?url=" \o q >> >>

\* C4: the candidate list of a dispatched scan is, with a base URL configured,
\* the ten entries proxy POST, proxy GET, /api/scan POST, GET, /api/scan/ POST,
\* GET, {base}/api/scan POST, GET, {base}/api/scan/ POST, GET in this order,
\* and without one the four same-origin entries; it is never empty.
C4_ResolverOrder ==
  \A i \in Invocations :
    inv[i].pc = "await" \/ inv[i].outcome \in { "success", "failed" } =>
      LET q == "https%3A%2F%2Fgithub.com%2Fo%2Fr"
          base == ApiBaseOf(env)
      IN /\ inv[i].ref = "https://github.com/o/r"
         /\ inv[i].attempts # << >>
         /\ Targets(inv[i].attempts) =
              IF base # "" THEN ConfiguredTargets(base, q) ELSE SameOriginTargets(q)
         /\ \A j \in 1..Len(inv[i].attempts) :
              MethodOf(inv[i].attempts[j]) = "POST" =>
                inv[i].attempts[j].init.body = "{\"url\":\"https://github.com/o/r\"}"

C4_Witness ==
  \E i \in Invocations :
    /\ inv[i].pc = "await"
    /\ Len(inv[i].attempts) = 10
    /\ inv[i].attempts[7].url = "HTTP://api.example.com/api/scan"
    /\ inv[i].attempts[10].url = "HTTP://api.example.com/api/scan/?url=https%3A%2F%2Fgithub.com%2Fo%2Fr"

\* the content types, body texts and statuses of a successful answer, listed
JsonContentTypes == { JsonType, Str("application/json; charset=utf-8") }

ParsableBodies == { BodyPayload, BodyErrInternal, BodyErrEmpty, BodyEmptyObj, BodyNull }

\* C5: tryRequest returns the parsed body exactly when the status is 2xx, the
\* content-type includes application/json and the body parses; otherwise it
\* throws, and the content-type is judged first, the parse second, the status
\* last: a non-JSON content-type gives the non-JSON error carrying the status
\* whatever the status is.
C5_Classification ==
  (probe # Null /\ probe.t = "tryRequest" /\ probe.done /\ probe.in.kind = "resp") =>
    LET r == probe.in
        out == probe.out
        isJson == r.ctype \in JsonContentTypes
        parses == r.body \in ParsableBodies
        okStatus == r.status \in 200..299
    IN /\ out.ok <=> (isJson /\ parses /\ okStatus)
       /\ out.ok => out.json = JSONParse(r.body).v
       /\ ~isJson =>
            out.err.message = "API returned non-JSON (status " \o ToString(r.status) \o ")."
       /\ (isJson /\ ~parses) => out.err.message = "Invalid JSON from API."
       /\ (isJson /\ parses /\ ~okStatus) =>
            out.err.message \in { "internal", "Request failed (" \o ToString(r.status) \o ")" }

C5_Witness ==
  /\ probe # Null /\ probe.t = "tryRequest" /\ probe.done
  /\ probe.in = Resp(500, HtmlType, BodyErrInternal)
  /\ probe.out.err.message = "API returned non-JSON (status 500)."

\* a fetch outcome of one of the four failing kinds
FailureKind(r) ==
  \/ r.kind = "throw"
  \/ r.ctype \notin JsonContentTypes
  \/ r.body \notin ParsableBodies
  \/ r.status \notin 200..299

Last(seq) == seq[Len(seq)]

\* C6: when the fetch an invocation awaits settles with a failure of any kind
\* (non-JSON content-type, unparsable body, non-success status, rejection)
\* and candidates remain, the invocation fetches the next candidate and
\* error, data and loading stay as they were; error is written by a settling
\* fetch only when it is the last candidate's.
C6_FailureCaught ==
  [][\A i \in Invocations :
       (inv[i].pc = "await" /\ inv'[i] # inv[i]) =>
         LET s == inv[i]
             t == inv'[i]
         IN /\ FailureKind(t.settled) <=> t.outcome # "success"
            /\ (FailureKind(t.settled) /\ s.idx < Len(s.attempts)) =>
                 /\ t.pc = "await"
                 /\ t.idx = s.idx + 1
                 /\ t.inflight = { s.idx + 1 }
                 /\ t.fetched = Append(s.fetched, s.idx + 1)
                 /\ error' = error /\ data' = data /\ loading' = loading
            /\ (FailureKind(t.settled) /\ s.idx = Len(s.attempts)) =>
                 t.outcome = "failed" /\ error' # Null]_vars

C6_Witness ==
  \E i \in Invocations :
    /\ inv[i].pc = "await"
    /\ inv[i].idx = 2
    /\ inv[i].settled = Resp(200, HtmlType, BodyHtml)
    /\ inv[i].lastError.message = "API returned non-JSON (status 200)."
    /\ error = Null /\ data = Null /\ loading

\* a JSON answer with a non-success status
StatusFailure(r) ==
  r.kind = "resp" /\ r.ctype \in JsonContentTypes /\ r.body \in ParsableBodies
    /\ r.status \notin 200..299

\* the body's error field, when the body is an object that has one
FoundErrorField(r) == ErrorField(JSONParse(r.body).v)

\* C7 as stated: the failure of a non-success JSON answer carries the body's
\* error field if one is found, else "Request failed (status)".
C7_Original ==
  \A i \in Invocations :
    (inv[i].settled # Null /\ StatusFailure(inv[i].settled)) =>
      inv[i].lastError.message =
        IF FoundErrorField(inv[i].settled) # Null
        THEN FoundErrorField(inv[i].settled).s
        ELSE "Request failed (" \o ToString(inv[i].settled.status) \o ")"

\* C7 amended: the failure of a non-success JSON answer carries the body's
\* error field if one is found and is not empty, else "Request failed
\* (status)"; and when the last candidate answers 500 with {error:"internal"}
\* the stored message is "internal " followed by the hint.
C7_StatusMessage ==
  /\ [](\A i \in Invocations :
          (inv[i].settled # Null /\ StatusFailure(inv[i].settled)) =>
            inv[i].lastError.message =
              IF FoundErrorField(inv[i].settled) \notin { Null, Str("") }
              THEN FoundErrorField(inv[i].settled).s
              ELSE "Request failed (" \o ToString(inv[i].settled.status) \o ")")
  /\ [][\A i \in Invocations :
          (inv[i].pc = "await" /\ inv'[i].outcome = "failed"
             /\ inv'[i].settled = Resp(500, JsonType, BodyErrInternal)) =>
            error' = Str("internal Check your deployed API and set NEXT_PUBLIC_API_BASE (e.g., https://your-app.vercel.app).")]_vars

C7_Witness ==
  \E i \in Invocations :
    /\ inv[i].outcome = "failed"
    /\ inv[i].settled = Resp(500, JsonType, BodyErrInternal)
    /\ inv[i].lastError.message = "internal"
    /\ error = Str("internal " \o Hint)

\* C8: an invocation has at most one fetch in flight, and it starts the fetch
\* of candidate k+1 only in the step in which the fetch of candidate k, the
\* one in flight, settles with a failure.
C8_Sequential ==
  [][\A i \in Invocations :
       LET s == inv[i]
           t == inv'[i]
       IN /\ Cardinality(t.inflight) <= 1
          /\ (s.pc # "idle" /\ t.fetched # s.fetched) =>
               /\ Len(t.fetched) = Len(s.fetched) + 1
               /\ SubSeq(t.fetched, 1, Len(s.fetched)) = s.fetched
               /\ s.inflight = { Last(s.fetched) }
               /\ Last(t.fetched) = Last(s.fetched) + 1
               /\ t.inflight = { Last(t.fetched) }
               /\ FailureKind(t.settled)]_vars

C8_Witness ==
  \E i \in Invocations :
    /\ inv[i].pc = "await"
    /\ inv[i].fetched = << 1, 2, 3 >>
    /\ inv[i].inflight = { 3 }
    /\ FailureKind(inv[i].settled)

\* the invocations that passed `if (!url) return`
Dispatched == { i \in Invocations : inv[i].pc # "idle" /\ inv[i].outcome # "empty" }

Running == { i \in Invocations : inv[i].pc = "await" }

Latest == CHOOSE i \in Dispatched : \A j \in Dispatched : j <= i

\* C9: once no invocation is in flight, data and error are those of the latest
\* invocation: the outcome of an earlier, superseded one has not overwritten
\* them.
C9_StaleGuard ==
  (Dispatched # {} /\ Running = {}) =>
    /\ inv[Latest].outcome = "success" =>
         data = JSONParse(inv[Latest].settled.body).v /\ error = Null
    /\ inv[Latest].outcome = "failed" =>
         data = Null /\ error = Str(inv[Latest].lastError.message \o " " \o Hint)

\* C10: at most one scan invocation is in flight.
C10_NoOverlap == Cardinality(Running) <= 1

\* C11: a dispatching scan sets error and data to null and loading to true
\* before its first fetch, so that while the latest invocation awaits a fetch
\* no result or error of an earlier invocation is shown.
C11_ResetBeforeDispatch ==
  [][/\ \A i \in Invocations :
          (inv[i].pc = "idle" /\ inv'[i].pc = "await") =>
            error' = Null /\ data' = Null /\ loading'
     /\ (Dispatched' # {} /\ inv'[Latest'].pc = "await") =>
          error' = Null /\ data' = Null]_vars

(***************************************************************************)
(* Properties of the Normalizer, the Grouper and the findings list, over    *)
(* SpecNorm.                                                                *)
(***************************************************************************)
Rendered == probe.t = "render" /\ probe.done

\* the items of the payload in data, however much of it is absent
PayloadItems == IF data.t = "null" \/ data.results.t = "null" THEN << >> ELSE data.results.items

NoFindings(item) == item.findings.t = "null" \/ item.findings.items = << >>

\* C12: a payload that is absent, or has no results, or whose items all have
\* findings absent or empty, gives no row and no non-empty severity group.
C12_EmptyPayload ==
  (Rendered /\ \A j \in 1..Len(PayloadItems) : NoFindings(PayloadItems[j])) =>
    /\ probe.rows = << >>
    /\ \A k \in 1..Len(probe.bySeverity) : probe.bySeverity[k].items = << >>

C12_Witness ==
  /\ Rendered
  /\ Len(PayloadItems) = 2
  /\ PayloadItems[1].findings.t = "null"
  /\ PayloadItems[2].findings = Arr(<< >>)
  /\ probe.rows = << >>
  /\ probe.bySeverity = << >>

\* the findings of item j of the payload, none when the field is absent
FindingsAt(j) ==
  IF NoFindings(PayloadItems[j]) THEN << >> ELSE PayloadItems[j].findings.items

\* how many findings items 1..j of the payload hold
RECURSIVE FindingsUpTo(_)
FindingsUpTo(j) == IF j = 0 THEN 0 ELSE FindingsUpTo(j - 1) + Len(FindingsAt(j))

\* the places of the payload's findings: item j, finding k of it
Places == { << j, k >> : j \in 1..Len(PayloadItems), k \in 1..(MaxFindings + 1) }

FindingPlaces == { p \in Places : p[2] <= Len(FindingsAt(p[1])) }

\* the row made of the finding at place p
RowAt(p) == probe.rows[FindingsUpTo(p[1] - 1) + p[2]]

\* the upper-case form of the severity labels the payloads use
UpperOf(s) ==
  CASE s = "high" -> "HIGH"
    [] s = "Critical" -> "CRITICAL"
    [] s = "info" -> "INFO"
    [] s = "low" -> "LOW"

\* C13: a finding whose severity is absent or the empty string gives a row of
\* severity "UNKNOWN"; any other finding gives its severity in upper case.
C13_SeverityDefault ==
  Rendered =>
    \A p \in FindingPlaces :
      LET f == FindingsAt(p[1])[p[2]]
      IN IF f.severity.t = "null" \/ f.severity.s = ""
         THEN RowAt(p).severity = "UNKNOWN"
         ELSE RowAt(p).severity = UpperOf(f.severity.s)

C13_Witness ==
  /\ Rendered
  /\ \E p \in FindingPlaces :
       FindingsAt(p[1])[p[2]].severity = Str("") /\ RowAt(p).severity = "UNKNOWN"

\* C14: the row's line is the string form of `line` when `line` is present,
\* else of `line_no` when that is present (0 gives "0"), else "".
C14_LineResolution ==
  Rendered =>
    \A p \in FindingPlaces :
      LET f == FindingsAt(p[1])[p[2]]
          StringOf(v) == CASE v = Num(0) -> "0"
                           [] v = Num(1) -> "1"
                           [] v = Num(2) -> "2"
                           [] v = Num(3) -> "3"
                           [] v = Num(5) -> "5"
                           [] v = Num(9) -> "9"
                           [] v = Num(42) -> "42"
                           [] v = Str("7") -> "7"
      IN RowAt(p).line =
           IF f.line # Null THEN StringOf(f.line)
           ELSE IF f.line_no # Null THEN StringOf(f.line_no)
           ELSE ""

C14_Witness ==
  /\ Rendered
  /\ \E p \in FindingPlaces :
       /\ FindingsAt(p[1])[p[2]].line = Num(0)
       /\ FindingsAt(p[1])[p[2]].line_no = Num(9)
       /\ RowAt(p).line = "0"

\* C16: there is exactly one row per finding of the payload, each row carries
\* the file_path of its item, and the rows are in payload order: items in the
\* given order and, within an item, findings in the given order.
C16_OrderAndCount ==
  Rendered =>
    /\ Len(probe.rows) = FindingsUpTo(Len(PayloadItems))
    /\ \A p \in FindingPlaces :
         LET f == FindingsAt(p[1])[p[2]]
         IN /\ RowAt(p).file = PayloadItems[p[1]].file_path
            /\ RowAt(p).message = (IF f.message = Null THEN "" ELSE f.message.s)
            /\ RowAt(p).confidence = (IF f.confidence.t = "num" THEN f.confidence ELSE Null)

\* two items of two findings each, the later findings not in sorted order
C16_Witness ==
  /\ Rendered
  /\ Len(PayloadItems) = 2
  /\ Len(FindingsAt(1)) = 2
  /\ Len(FindingsAt(2)) = 2
  /\ [k \in 1..4 |-> probe.rows[k].message] = << "second", "first", "third", "second" >>
  /\ [k \in 1..4 |-> probe.rows[k].file] = << Files[1], Files[1], Files[2], Files[2] >>

\* the rows held by groups 1..k of the grouping
RECURSIVE GroupedUpTo(_)
GroupedUpTo(k) ==
  IF k = 0 THEN 0 ELSE GroupedUpTo(k - 1) + Len(probe.bySeverity[k].items)

\* C17: the groups partition the rows: keys are distinct, every row's severity
\* is a key, each group holds exactly the rows of its severity in their
\* order in the row sequence, no group is empty, and the sizes sum to the
\* number of rows.
C17_Partition ==
  Rendered =>
    LET g == probe.bySeverity
    IN /\ \A a, b \in 1..Len(g) : g[a].key = g[b].key => a = b
       /\ \A i \in 1..Len(probe.rows) : \E k \in 1..Len(g) : g[k].key = probe.rows[i].severity
       /\ \A k \in 1..Len(g) :
            /\ g[k].items # << >>
            /\ g[k].items = SelectSeq(probe.rows, LAMBDA x : x.severity = g[k].key)
       /\ GroupedUpTo(Len(g)) = Len(probe.rows)

\* LOW, CRITICAL, LOW: the two LOW rows share a group, in their order
C17_Witness ==
  /\ Rendered
  /\ [i \in 1..Len(probe.rows) |-> probe.rows[i].severity] = << "LOW", "CRITICAL", "LOW" >>
  /\ Len(probe.bySeverity) = 2
  /\ probe.bySeverity[1].key = "LOW"
  /\ probe.bySeverity[1].items = << probe.rows[1], probe.rows[3] >>
  /\ probe.rows[1] # probe.rows[3]

ShownLabels == [k \in 1..Len(probe.shown) |-> probe.shown[k].sev]

GroupKeys == [k \in 1..Len(probe.bySeverity) |-> probe.bySeverity[k].key]

\* C18: the groups shown are, in the order CRITICAL, HIGH, MEDIUM, LOW,
\* UNKNOWN, those of the five that have a row, whatever the order in which the
\* labels first occur in the rows; a group without rows is not shown.
C18_DisplayOrder ==
  Rendered =>
    /\ ShownLabels =
         SelectSeq(<< "CRITICAL", "HIGH", "MEDIUM", "LOW", "UNKNOWN" >>,
                   LAMBDA s : \E i \in 1..Len(probe.rows) : probe.rows[i].severity = s)
    /\ \A k \in 1..Len(probe.shown) :
         /\ probe.shown[k].items # << >>
         /\ probe.shown[k].items =
              SelectSeq(probe.rows, LAMBDA x : x.severity = probe.shown[k].sev)

\* labels first occur as LOW, UNKNOWN, CRITICAL and are shown as CRITICAL,
\* LOW, UNKNOWN
C18_Witness ==
  /\ Rendered
  /\ GroupKeys = << "LOW", "UNKNOWN", "CRITICAL" >>
  /\ ShownLabels = << "CRITICAL", "LOW", "UNKNOWN" >>

SeveritySet == { "CRITICAL", "HIGH", "MEDIUM", "LOW", "UNKNOWN" }

\* the entries listed by groups 1..k of the findings list
RECURSIVE ShownUpTo(_)
ShownUpTo(k) == IF k = 0 THEN 0 ELSE ShownUpTo(k - 1) + Len(probe.shown[k].items)

\* C19: a row whose severity is outside the five labels is listed in the
\* UNKNOWN group, every row is listed in exactly one group, and the number of
\* entries listed equals the number of rows.
C19_OutOfSetAsUnknown ==
  Rendered =>
    /\ ShownUpTo(Len(probe.shown)) = Len(probe.rows)
    /\ \A i \in 1..Len(probe.rows) :
         probe.rows[i].severity \notin SeveritySet =>
           \E k \in 1..Len(probe.shown) :
             /\ probe.shown[k].sev = "UNKNOWN"
             /\ probe.rows[i] \in Range(probe.shown[k].items)

\* C20 as stated: every key of the grouping and every row's severity is one
\* of the five labels, whatever the payload.
C20_Original ==
  Rendered =>
    /\ Range(GroupKeys) \subseteq SeveritySet
    /\ \A i \in 1..Len(probe.rows) : probe.rows[i].severity \in SeveritySet

\* the label the payload gives finding f: its severity in upper case, or
\* UNKNOWN when it has none
LabelOf(f) ==
  IF f.severity = Null \/ f.severity = Str("") THEN "UNKNOWN" ELSE UpperOf(f.severity.s)

PayloadLabels == { LabelOf(FindingsAt(p[1])[p[2]]) : p \in FindingPlaces }

\* C20: the keys of the grouping and the severities of the rows are exactly
\* the labels of the payload's findings, an out-of-set label kept in upper
\* case; they are among the five whenever every label of the payload is.
C20_SeverityLabels ==
  Rendered =>
    /\ Range(GroupKeys) = PayloadLabels
    /\ { probe.rows[i].severity : i \in 1..Len(probe.rows) } = PayloadLabels
    /\ PayloadLabels \subseteq SeveritySet => Range(GroupKeys) \subseteq SeveritySet

\* a payload with an in-set label in mixed case and an out-of-set label
C20_Witness ==
  /\ Rendered
  /\ \E p \in FindingPlaces : FindingsAt(p[1])[p[2]].severity = Str("info")
  /\ \E p \in FindingPlaces : FindingsAt(p[1])[p[2]].severity = Str("Critical")
  /\ Range(GroupKeys) = { "INFO", "CRITICAL" }

(***************************************************************************)
(* Confidence.  Numbers are integers here: 0 and 1 are the ends of [0,1],   *)
(* -1 and 2 lie outside it.                                                 *)
(***************************************************************************)
InUnitInterval(v) == v.t = "num" /\ v.n >= 0 /\ v.n <= 1

\* C21 as stated: a row's confidence is the finding's when that is a number
\* and absent otherwise, and every confidence present lies in [0,1].
C21_Original ==
  Rendered =>
    \A p \in FindingPlaces :
      LET c == FindingsAt(p[1])[p[2]].confidence
      IN /\ RowAt(p).confidence = (IF c.t = "num" THEN c ELSE Null)
         /\ RowAt(p).confidence # Null => InUnitInterval(RowAt(p).confidence)

\* C21: a row's confidence is the finding's when that is a number and absent
\* otherwise; it lies in [0,1] exactly when the finding's confidence is a
\* number in [0,1], and a number outside [0,1] is passed through as it is.
C21_Confidence ==
  Rendered =>
    \A p \in FindingPlaces :
      LET c == FindingsAt(p[1])[p[2]].confidence
      IN /\ c.t = "num" => RowAt(p).confidence = c
         /\ c.t # "num" => RowAt(p).confidence = Null
         /\ (RowAt(p).confidence # Null /\ InUnitInterval(RowAt(p).confidence))
              <=> InUnitInterval(c)

\* a confidence of 2 reaches the row unchanged
C21_Witness ==
  /\ Rendered
  /\ \E p \in FindingPlaces :
       FindingsAt(p[1])[p[2]].confidence = Num(2) /\ RowAt(p).confidence = Num(2)

(***************************************************************************)
(* Properties of the Proxy Forwarder, over SpecProxy.                       *)
(***************************************************************************)
Answered == probe.t = "proxy" /\ probe.pc = "done"

\* C22: when both environment settings are empty, the POST and the GET
\* handler answer 503 with a JSON {error} body and start no upstream request.
C22_NotConfigured ==
  (Answered /\ env.API_BASE = "" /\ env.NEXT_PUBLIC_API_BASE = "") =>
    /\ probe.out.kind = "resp"
    /\ probe.out.status = 503
    /\ probe.out.ctype = Str("application/json")
    /\ probe.out.body =
         "{\"error\":\"API_BASE not configured. Set API_BASE or NEXT_PUBLIC_API_BASE to your deployed URL.\"}"
    /\ probe.sent = << >>

C22_Witness ==
  /\ Answered
  /\ env.API_BASE = ""
  /\ env.NEXT_PUBLIC_API_BASE = ""
  /\ probe.req.method = "GET"
  /\ probe.out.status = 503
  /\ probe.sent = << >>

\* the base the proxy is configured with: API_BASE, else
\* NEXT_PUBLIC_API_BASE, without its trailing slash
ConfiguredBase ==
  LET Trim(v) == CASE v = "https://srv.example.com" -> "https://srv.example.com"
                   [] v = "https://api.example.com/" -> "https://api.example.com"
                   [] OTHER -> ""
  IN IF env.API_BASE # "" THEN Trim(env.API_BASE) ELSE Trim(env.NEXT_PUBLIC_API_BASE)

\* the `url` query parameter the proxy is to send for the inbound one
ForwardedQuery(query) ==
  IF query = Str("https://github.com/o/r") THEN "https%3A%2F%2Fgithub.com%2Fo%2Fr" ELSE ""

StatusText(status) ==
  CASE status = 200 -> "200" [] status = 404 -> "404" [] status = 500 -> "500"

\* C23: a configured proxy sends exactly one upstream request to
\* {base}/api/scan, a POST with the inbound body unchanged or a GET with the
\* inbound url parameter; a JSON upstream answer is relayed with its status
\* and body unchanged, whatever the status; any other answer gives 502 and a
\* JSON {error} body naming the upstream status.
C23_Relay ==
  (Answered /\ ConfiguredBase # "") =>
    /\ Len(probe.sent) = 1
    /\ probe.req.method = "POST" =>
         /\ probe.sent[1].url = ConfiguredBase \o "/api/scan"
         /\ probe.sent[1].init.method = "POST"
         /\ probe.sent[1].init.body = probe.req.body
    /\ probe.req.method = "GET" =>
         /\ probe.sent[1].url =
              ConfiguredBase \o "/api/scan?url=" \o ForwardedQuery(probe.req.query)
         /\ probe.sent[1].init = Null
    /\ probe.upstream.kind = "resp" =>
         /\ probe.out.kind = "resp"
         /\ probe.out.ctype = Str("application/json")
         /\ IF probe.upstream.ctype \in JsonContentTypes
            THEN /\ probe.out.status = probe.upstream.status
                 /\ probe.out.body = probe.upstream.body
            ELSE /\ probe.out.status = 502
                 /\ probe.out.body =
                      "{\"error\":\"Upstream returned non-JSON (status "
                        \o StatusText(probe.upstream.status) \o ")\"}"

\* a 500 answer with a JSON body is relayed as 500 with that body
C23_Witness ==
  /\ Answered
  /\ ConfiguredBase = "https://api.example.com"
  /\ probe.req.method = "GET"
  /\ probe.req.query = Str("https://github.com/o/r")
  /\ probe.upstream = Resp(500, Str("application/json"), BodyErrInternal)
  /\ probe.out.status = 500
  /\ probe.out.body = BodyErrInternal

\* C30: whenever the client treats a base URL as configured, and so adds the
\* two proxy candidates, the proxy's getBase yields the base string the client
\* uses, and the proxy never answers 503 not-configured.
C30_ConfigAgreement ==
  LET apiBase == ApiBaseOf(env)
  IN (probe.t = "proxy" /\ apiBase # "" /\ ~ConfigInvalid(apiBase)
        /\ ProxyAttempts(apiBase, "https://github.com/o/r") # << >>) =>
       /\ getBase(env) = Str(apiBase)
       /\ Answered => probe.out.status # 503

(***************************************************************************)
(* Further properties of scan().                                            *)
(***************************************************************************)
\* the text of the failure that answer r is for tryRequest
FailureText(r) ==
  CASE r.kind = "throw" -> r.message
    [] r.kind = "resp" /\ r.ctype \notin JsonContentTypes ->
         "API returned non-JSON (status " \o StatusText(r.status) \o ")."
    [] r.kind = "resp" /\ r.ctype \in JsonContentTypes /\ r.body \notin ParsableBodies ->
         "Invalid JSON from API."
    [] r.kind = "resp" /\ r.ctype \in JsonContentTypes /\ r.body = BodyErrInternal ->
         "internal"
    [] OTHER -> "Request failed (" \o StatusText(r.status) \o ")"

\* C24: an invocation that ends with an error stores one message: the text of
\* the configuration error, or of the last candidate's failure, then one
\* space, then the remediation hint; the text of the failure before the last,
\* when it differs, is not part of it.
C24_UserVisibleError ==
  [][\A i \in Invocations :
       (inv[i].pc # "done" /\ inv'[i].pc = "done"
          /\ inv'[i].outcome \in { "failed", "config" }) =>
         LET text == IF inv'[i].outcome = "config"
                     THEN "NEXT_PUBLIC_API_BASE must include protocol, e.g., https://your-app.vercel.app"
                     ELSE FailureText(inv'[i].settled)
             before == inv[i].lastError
         IN /\ error' = Str(text \o " " \o Hint)
            /\ (inv'[i].outcome = "failed" /\ before # Null /\ before.message # text) =>
                 ~Includes(error'.s, before.message)]_vars

\* the last of ten candidates answered 500 {"error":"internal"}
C24_Witness ==
  \E i \in Invocations :
    /\ inv[i].outcome = "failed"
    /\ Len(inv[i].fetched) = 10
    /\ inv[i].settled = Resp(500, JsonType, BodyErrInternal)
    /\ error = Str("internal " \o Hint)

\* the request carries the reference "https://github.com/o/r": in its JSON
\* body when it is a POST, in its url parameter when it is a GET
CarriesReference(a) ==
  IF a.init # Null
  THEN a.init.body = "{\"url\":\"https://github.com/o/r\"}"
  ELSE \E j \in 1..Len(a.url) :
         SubSeq(a.url, j, Len(a.url)) = "?url=https%3A%2F%2Fgithub.com%2Fo%2Fr"

\* C25: scan() called with an empty reference fetches nothing and leaves
\* loading, error and data as they were; every request an invocation has
\* issued carries its non-empty reference.
C25_NonEmptyReference ==
  [][\A i \in Invocations :
       /\ (inv[i].pc = "idle" /\ inv'[i].pc # "idle" /\ url = "") =>
            /\ inv'[i].pc = "done"
            /\ inv'[i].fetched = << >>
            /\ inv'[i].inflight = {}
            /\ loading' = loading
            /\ error' = error
            /\ data' = data
       /\ \A k \in Range(inv'[i].fetched) :
            /\ inv'[i].ref = "https://github.com/o/r"
            /\ CarriesReference(inv'[i].attempts[k])]_vars

\* an empty-reference scan after a scan that stored a result: the result
\* is still there
C25_Witness ==
  /\ inv[1].outcome = "success"
  /\ inv[2].outcome = "empty"
  /\ inv[2].fetched = << >>
  /\ data # Null
  /\ ~loading

\* the requests invocation i has issued, in order
Requests(i) == [k \in 1..Len(inv[i].fetched) |-> inv[i].attempts[inv[i].fetched[k]]]

\* invocations i and j ran on the same reference and were answered alike: the
\* same number of candidates failed and the last answer was the same
SameRun(i, j) ==
  /\ inv[i].pc = "done"
  /\ inv[j].pc = "done"
  /\ inv[i].ref # ""
  /\ inv[i].ref = inv[j].ref
  /\ Len(inv[i].fetched) = Len(inv[j].fetched)
  /\ inv[i].settled = inv[j].settled

\* C26: two invocations under one configuration, on the same reference and
\* answered alike, issue the same sequence of requests and end with the same
\* stored result or the same stored error message.
C26_Deterministic ==
  \A i, j \in Invocations :
    SameRun(i, j) =>
      /\ Requests(i) = Requests(j)
      /\ inv[i].outcome = inv[j].outcome
      /\ inv[i].stored = inv[j].stored

\* two scans that each failed on three candidates and succeeded on the fourth
C26_Witness ==
  /\ SameRun(1, 2)
  /\ Len(inv[1].fetched) = 4
  /\ inv[1].outcome = "success"
  /\ inv[1].stored = inv[2].stored
  /\ inv[1].stored.data # Null

\* C27: provided every fetch settles, an invocation that awaits a fetch
\* ends; it never fetches more than its N candidates; and the step on which
\* an invocation that passed the empty-reference test ends, by success, by
\* failure of all candidates or by the configuration error, sets loading to
\* false.
C27_Termination ==
  /\ \A i \in Invocations : (inv[i].pc = "await") ~> (inv[i].pc = "done")
  /\ [](\A i \in Invocations : Len(inv[i].fetched) <= Len(inv[i].attempts))
  /\ [][\A i \in Invocations :
          (inv[i].pc # "done" /\ inv'[i].pc = "done"
             /\ inv'[i].outcome \in { "success", "failed", "config" }) =>
            loading' = FALSE]_vars

\* all ten candidates were fetched, the last failed, and loading is false
C27_Witness ==
  \E i \in Invocations :
    /\ inv[i].pc = "done"
    /\ inv[i].outcome = "failed"
    /\ Len(inv[i].fetched) = 10
    /\ Len(inv[i].attempts) = 10
    /\ ~loading

\* C28: once an invocation that dispatched has ended, and no other has run
\* since, exactly one of data and error is non-null: data after a success,
\* error after a failure.
C28_ExactlyOneOutcome ==
  \A i \in Invocations :
    (inv[i].pc = "done" /\ inv[i].fetched # << >> /\ clicks = i) =>
      /\ (data # Null) # (error # Null)
      /\ inv[i].outcome = "success" => (data # Null /\ error = Null)
      /\ inv[i].outcome = "failed" => (error # Null /\ data = Null)

\* C29: in every state, loading is true whenever some invocation still
\* awaits a fetch or has candidates left to try, so loading is false only when
\* no invocation is running.
C29_LoadingReflectsWork ==
  /\ (\E i \in Invocations : inv[i].pc = "await") => loading
  /\ ~loading => \A i \in Invocations : inv[i].inflight = {}

====
